---- MODULE Spec2Model ----
(***************************************************************************)
(* Model of hive/server/bridge_api/objects.py: the condenser-compatible    *)
(* post object builder and the batch loaders load_posts_keyed, load_posts  *)
(* and load_posts_reblogs.                                                 *)
(*                                                                         *)
(* Text is modelled as a sequence of one-character strings wherever the    *)
(* code formats, parses, slices or splits it (amounts, bodies, reblogger   *)
(* csv, account names).  Amounts are integers in thousandths (the payout   *)
(* column is numeric(10,3) and sbd_amount yields a Decimal).  raw_json is  *)
(* a JSON text, kept as its length together with the document json.loads   *)
(* yields for it.  Python's assert statements are modelled as they run in  *)
(* a default (non -O) interpreter.                                         *)
(***************************************************************************)
EXTENDS Integers, Sequences, FiniteSets, TLC

(* ------------------------------ bounds -------------------------------- *)

\* longest id list handed to load_posts / load_posts_keyed
MaxIds == 3
\* longest list of (id, rebloggers csv) pairs handed to load_posts_reblogs
MaxPairs == 2
\* longest post body
MaxBody == 3
\* largest truncate_body tried (the smallest is -MaxTruncate)
MaxTruncate == 2

(* --------------------------- program constants ------------------------ *)

\* assert len(row['raw_json']) > 32
RawJsonMinLen == 32

(* ------------------------------ text ---------------------------------- *)

DigitChars == <<"0", "1", "2", "3", "4", "5", "6", "7", "8", "9">>

DigitVal(c) == CHOOSE d \in 0..9 : DigitChars[d + 1] = c

Abs(n) == IF n < 0 THEN -n ELSE n

RECURSIVE NatStr(_)
\* decimal digits of a natural number
NatStr(n) ==
    IF n < 10 THEN <<DigitChars[n + 1]>>
    ELSE NatStr(n \div 10) \o <<DigitChars[(n % 10) + 1]>>

RECURSIVE NatVal(_)
\* value of a non-empty sequence of decimal digits
NatVal(s) ==
    IF Len(s) = 1 THEN DigitVal(s[1])
    ELSE 10 * NatVal(SubSeq(s, 1, Len(s) - 1)) + DigitVal(s[Len(s)])

\* "%.3f" % amount, for an amount given in thousandths
Fixed3(m) ==
    (IF m < 0 THEN <<"-">> ELSE <<>>)
    \o NatStr(Abs(m) \div 1000)
    \o <<".">>
    \o <<DigitChars[((Abs(m) \div 100) % 10) + 1],
         DigitChars[((Abs(m) \div 10) % 10) + 1],
         DigitChars[(Abs(m) % 10) + 1]>>

RECURSIVE Split(_, _)
\* Python's s.split(sep) for a one-character separator: never empty,
\* "".split(",") is [""]
Split(s, sep) ==
    IF \A i \in 1..Len(s) : s[i] # sep THEN <<s>>
    ELSE LET k == CHOOSE i \in 1..Len(s) :
                      s[i] = sep /\ \A j \in 1..(i - 1) : s[j] # sep
         IN  <<SubSeq(s, 1, k - 1)>> \o Split(SubSeq(s, k + 1, Len(s)), sep)

RECURSIVE Join(_, _)
\* sep.join(parts)
Join(parts, sep) ==
    IF parts = <<>> THEN <<>>
    ELSE IF Len(parts) = 1 THEN parts[1]
    ELSE parts[1] \o <<sep>> \o Join(Tail(parts), sep)

\* Python's s[0:n]
Slice0(s, n) ==
    IF n >= 0 THEN SubSeq(s, 1, IF n < Len(s) THEN n ELSE Len(s))
    ELSE SubSeq(s, 1, IF Len(s) + n > 0 THEN Len(s) + n ELSE 0)

Range(s) == {s[i] : i \in 1..Len(s)}

(* ----------------------------- amounts -------------------------------- *)

\* _amount(amount): "%.3f SBD" % amount (asset is always the default 'SBD')
Amount(amount) == Fixed3(amount) \o <<" ", "S", "B", "D">>

\* value in thousandths of a decimal text with three decimals
DecimalMillis(raw) ==
    LET neg   == raw[1] = "-"
        body  == IF neg THEN Tail(raw) ELSE raw
        parts == Split(body, ".")
        v     == 1000 * NatVal(parts[1]) + NatVal(parts[2])
    IN  IF neg THEN -v ELSE v

\* sbd_amount(value): the numeric amount of "<decimal> SBD", unit discarded
sbd_amount(value) == DecimalMillis(Split(value, " ")[1])

\* rep_to_raw(rep) of hive.utils.normalize: an uninterpreted encoding
rep_to_raw(rep) == <<"rep_to_raw", rep>>

(* ------------------------ _condenser_post_object ---------------------- *)

\* mutant of Category: the mitigation is missing
CategoryRaw(row) == row.category

\* condenser#3424 mitigation: an empty category becomes 'undefined'
Category(row) == IF row.category = "" THEN "undefined" ELSE row.category

\* post['body']: row['body'][0:truncate_body] if truncate_body else row['body']
Body(row, truncate_body) ==
    IF truncate_body # 0 THEN Slice0(row.body, truncate_body) ELSE row.body

\* mutant of RawJsonOk: the length check is off by one (>= 32)
RawJsonOkOffByOne(raw_json) ==
    /\ ~raw_json.null
    /\ raw_json.len # 0
    /\ raw_json.len >= RawJsonMinLen

\* assert row['raw_json']; assert len(row['raw_json']) > 32
RawJsonOk(raw_json) ==
    /\ ~raw_json.null
    /\ raw_json.len # 0
    /\ raw_json.len > RawJsonMinLen

\* parent_author / parent_permlink
ParentFields(row, doc) ==
    IF row.depth > 0
    THEN [parent_author   |-> doc.parent_author,
          parent_permlink |-> doc.parent_permlink]
    ELSE [parent_author   |-> "",
          parent_permlink |-> Category(row)]

\* mutant of PayoutFields: a paid post's total is not reduced by the
\* curator share
PayoutFieldsNoResplit(row, doc) ==
    LET paid == row.is_paidout
    IN  [total_payout_value   |-> Amount(IF paid THEN row.payout ELSE 0),
         curator_payout_value |->
             IF paid THEN Amount(sbd_amount(doc.curator_payout_value)) ELSE Amount(0),
         pending_payout_value |-> Amount(IF paid THEN 0 ELSE row.payout)]

\* total / curator / pending payout values: set from the row first, then
\* re-split from the legacy snapshot when the post is paid
PayoutFields(row, doc) ==
    LET paid    == row.is_paidout
        initial == [total_payout_value   |-> Amount(IF paid THEN row.payout ELSE 0),
                    curator_payout_value |-> Amount(0),
                    pending_payout_value |-> Amount(IF paid THEN 0 ELSE row.payout)]
    IN  IF paid
        THEN LET curator_payout == sbd_amount(doc.curator_payout_value)
             IN  [initial EXCEPT
                    !.curator_payout_value = Amount(curator_payout),
                    !.total_payout_value   = Amount(row.payout - curator_payout)]
        ELSE initial

\* _condenser_post_object(row, truncate_body): the post, or the assertion
\* that aborted its construction.  Fields no property reads (title,
\* permlink, dates, votes, promoted, url, ...) are left out.
CondenserPostObject(row, truncate_body) ==
    IF ~RawJsonOk(row.raw_json)
    THEN [raised |-> "AssertionError"]
    ELSE LET doc    == row.raw_json.doc
             parent == ParentFields(row, doc)
             payout == PayoutFields(row, doc)
         IN  [raised |-> "",
              post |->
                [post_id              |-> row.post_id,
                 author               |-> row.author,
                 category             |-> Category(row),
                 body                 |-> Body(row, truncate_body),
                 depth                |-> row.depth,
                 total_payout_value   |-> payout.total_payout_value,
                 curator_payout_value |-> payout.curator_payout_value,
                 pending_payout_value |-> payout.pending_payout_value,
                 body_length          |-> Len(row.body),
                 author_reputation    |-> rep_to_raw(row.author_rep),
                 stats                |-> [hide        |-> row.is_hidden,
                                           gray        |-> row.is_grayed,
                                           total_votes |-> row.total_votes],
                 parent_author        |-> parent.parent_author,
                 parent_permlink      |-> parent.parent_permlink]]

(* ------------------------------ inputs -------------------------------- *)

Ids == {5, 6, 7}

Alice == <<"a">>
Bob   == <<"b">>
Carol == <<"c">>

RECURSIVE SeqsUpTo(_, _)
\* all sequences over S of length at most n
SeqsUpTo(S, n) ==
    IF n = 0 THEN {<<>>}
    ELSE LET shorter == SeqsUpTo(S, n - 1)
         IN  shorter \cup {Append(s, x) : s \in shorter, x \in S}

Bodies == SeqsUpTo({"x", "y"}, MaxBody)

Truncates == (-MaxTruncate)..MaxTruncate

\* payout amounts and curator shares, in thousandths
Payouts == {0, 1234, 10000}

CuratorPayoutValues ==
    { <<"0", ".", "0", "0", "0", " ", "S", "B", "D">>,
      <<"2", ".", "0", "0", "0", " ", "S", "B", "D">>,
      <<"1", "2", ".", "3", "4", "5", " ", "S", "B", "D">> }

\* a raw_json column: NULL, or a text of the given length holding doc
RawJson(null, len, doc) == [null |-> null, len |-> len, doc |-> doc]

LegacyDoc(curator) ==
    [parent_author        |-> "parent",
     parent_permlink      |-> "parent-permlink",
     curator_payout_value |-> curator]

\* the raw_json columns tried: NULL, '', 32 characters, 33 characters
RawJsons(curator) ==
    { RawJson(TRUE, 0, LegacyDoc(curator)),
      RawJson(FALSE, 0, LegacyDoc(curator)),
      RawJson(FALSE, RawJsonMinLen, LegacyDoc(curator)),
      RawJson(FALSE, RawJsonMinLen + 1, LegacyDoc(curator)) }

CacheRow(id, author, category, depth, paid, payout, body, raw_json) ==
    [post_id     |-> id,
     author      |-> author,
     category    |-> category,
     depth       |-> depth,
     is_paidout  |-> paid,
     payout      |-> payout,
     body        |-> body,
     raw_json    |-> raw_json,
     is_hidden   |-> FALSE,
     is_grayed   |-> FALSE,
     total_votes |-> 0]

\* the cache rows handed to _condenser_post_object on its own
PostRows ==
    { CacheRow(5, Alice, c, d, p, amt, b, rj) @@ [author_rep |-> 25] :
        c \in {"", "hive"}, d \in {0, 1}, p \in BOOLEAN, amt \in Payouts,
        b \in Bodies,
        rj \in UNION {RawJsons(cur) : cur \in CuratorPayoutValues} }

(* ------------------------------- state -------------------------------- *)

VARIABLES
    hive_posts_cache,  \* table hive_posts_cache: post_id -> cache row
    hive_posts,        \* table hive_posts: id -> canonical record
    entry,             \* the function the caller invoked
    pc,                \* where the call stands
    ids,               \* the list object passed as ids (shared with the caller)
    ids0,              \* its content at the time of the call
    truncate_body,     \* the truncate_body argument
    row,               \* the row argument of a direct _condenser_post_object call
    rows,              \* post ids of the rows the cache query returned
    author_reps,       \* author -> reputation map
    posts_by_id,       \* post_id -> post
    missed,            \* the ids of `missed` not yet iterated
    log,               \* log records, oldest first
    queries,           \* storage queries issued, oldest first
    ids_with_reblogs,  \* the pairs passed to load_posts_reblogs
    result,            \* the value returned
    raised             \* the exception raised ("" if none)

vars == <<hive_posts_cache, hive_posts, entry, pc, ids, ids0, truncate_body,
          row, rows, author_reps, posts_by_id, missed, log, queries,
          ids_with_reblogs, result, raised>>

NoValue == <<>>

(* -------------- specification: _condenser_post_object ----------------- *)

InitPost ==
    /\ hive_posts_cache = <<>>
    /\ hive_posts = <<>>
    /\ entry = "_condenser_post_object"
    /\ pc = "call"
    /\ ids = <<>>
    /\ ids0 = <<>>
    /\ truncate_body \in Truncates
    /\ row \in PostRows
    /\ rows = {}
    /\ author_reps = <<>>
    /\ posts_by_id = <<>>
    /\ missed = {}
    /\ log = <<>>
    /\ queries = <<>>
    /\ ids_with_reblogs = <<>>
    /\ result = NoValue
    /\ raised = ""

\* a call of _condenser_post_object(row, truncate_body)
BuildPost ==
    /\ pc = "call"
    /\ entry = "_condenser_post_object"
    /\ LET built == CondenserPostObject(row, truncate_body)
       IN  /\ raised' = built.raised
           /\ result' = IF built.raised = "" THEN built.post ELSE NoValue
    /\ pc' = "done"
    /\ UNCHANGED <<hive_posts_cache, hive_posts, entry, ids, ids0,
                   truncate_body, row, rows, author_reps, posts_by_id,
                   missed, log, queries, ids_with_reblogs>>

NextPost == BuildPost

SpecPost == InitPost /\ [][NextPost]_vars

(* ---------------------- storage and loader inputs --------------------- *)

\* hive_accounts.reputation by account name (every author has an account)
AccountReputation(name) == IF name = Alice THEN 25 ELSE 70

\* a well-formed cache row of the loaders' tables
GoodRow(id, author) ==
    CacheRow(id, author, "hive", 0, TRUE, 10000, <<"x", "y", "x">>,
             RawJson(FALSE, RawJsonMinLen + 1,
                     LegacyDoc(<<"2", ".", "0", "0", "0", " ", "S", "B", "D">>)))

\* cache rows whose raw_json is NULL, '' or 32 characters long
FaultRows(id, author) ==
    { [GoodRow(id, author) EXCEPT !.raw_json.null = TRUE, !.raw_json.len = 0],
      [GoodRow(id, author) EXCEPT !.raw_json.len = 0],
      [GoodRow(id, author) EXCEPT !.raw_json.len = RawJsonMinLen] }

\* a canonical record of hive_posts
CanonicalRecord(id, deleted) ==
    [id         |-> id,
     is_deleted |-> deleted,
     is_pinned  |-> id = 5,
     is_muted   |-> id = 7,
     is_valid   |-> id # 7]

\* the two tables over idset, rowsOf[id] being the cache rows tried for id:
\* every id has a canonical record; a deleted post has no
\* cache row; a cache row is keyed by its own post_id
Tables(cache, posts, idset, rowsOf) ==
    /\ \E present \in SUBSET idset :
           cache \in [present -> UNION {rowsOf[id] : id \in idset}]
    /\ \A id \in DOMAIN cache : cache[id].post_id = id
    /\ posts \in [idset -> UNION {{CanonicalRecord(id, d) : d \in BOOLEAN} : id \in idset}]
    /\ \A id \in idset : posts[id].id = id
    /\ \A id \in DOMAIN cache : ~posts[id].is_deleted

AuthorOf(id) == IF id = 6 THEN Bob ELSE Alice

LoaderRows(id) == {GoodRow(id, AuthorOf(id))} \cup FaultRows(id, AuthorOf(id))

IdLists == SeqsUpTo(Ids, MaxIds)

LoaderTruncates == {0, 2}

(* ------------------------------ loaders ------------------------------- *)

\* list.remove(x): drops the first occurrence of x
RemoveFirst(list, x) ==
    LET k == CHOOSE i \in 1..Len(list) :
                 list[i] = x /\ \A j \in 1..(i - 1) : list[j] # x
    IN  SubSeq(list, 1, k - 1) \o SubSeq(list, k + 1, Len(list))

Query(table, arg) == [table |-> table, arg |-> arg]

LogRecord(level, msg, arg) == [level |-> level, msg |-> msg, arg |-> arg]

\* the body of load_posts up to its call of load_posts_keyed
EnterLoadPosts(list) ==
    IF list = <<>>
    THEN /\ result' = <<>>
         /\ pc' = IF entry' = "load_posts_reblogs" THEN "merge" ELSE "done"
    ELSE /\ result' = NoValue
         /\ pc' = "keyed_fetch"

\* load_posts(db, ids, truncate_body)
CallLoadPosts(list, tb) ==
    /\ pc = "idle"
    /\ entry' = "load_posts"
    /\ ids' = list
    /\ ids0' = list
    /\ truncate_body' = tb
    /\ EnterLoadPosts(list)
    /\ UNCHANGED <<hive_posts_cache, hive_posts, row, rows, author_reps,
                   posts_by_id, missed, log, queries, ids_with_reblogs, raised>>

\* load_posts_keyed(db, ids, truncate_body), called directly
CallLoadPostsKeyed(list, tb) ==
    /\ pc = "idle"
    /\ entry' = "load_posts_keyed"
    /\ ids' = list
    /\ ids0' = list
    /\ truncate_body' = tb
    /\ pc' = "keyed_fetch"
    /\ UNCHANGED <<hive_posts_cache, hive_posts, row, rows, author_reps,
                   posts_by_id, missed, log, queries, ids_with_reblogs,
                   result, raised>>

\* mutant of KeyedPrecondition: the assertion is missing
KeyedPreconditionNone(list) == TRUE

\* assert ids
KeyedPrecondition(list) == list # <<>>

\* load_posts_keyed: the assertion, then the hive_posts_cache query
KeyedFetch ==
    /\ pc = "keyed_fetch"
    /\ IF ~KeyedPrecondition(ids)
       THEN /\ raised' = "AssertionError"
            /\ pc' = "done"
            /\ UNCHANGED <<rows, queries>>
       ELSE /\ queries' = Append(queries, Query("hive_posts_cache", Range(ids)))
            /\ rows' = Range(ids) \cap DOMAIN hive_posts_cache
            /\ pc' = "keyed_reps"
            /\ UNCHANGED raised
    /\ UNCHANGED <<hive_posts_cache, hive_posts, entry, ids, ids0,
                   truncate_body, row, author_reps, posts_by_id, missed, log,
                   ids_with_reblogs, result>>

\* _query_author_rep_map(db, result)
KeyedAuthorReps ==
    /\ pc = "keyed_reps"
    /\ LET names == {hive_posts_cache[id].author : id \in rows}
       IN  IF rows = {}
           THEN /\ author_reps' = <<>>
                /\ UNCHANGED queries
           ELSE /\ author_reps' = [n \in names |-> AccountReputation(n)]
                /\ queries' = Append(queries, Query("hive_accounts", names))
    /\ pc' = "keyed_build"
    /\ UNCHANGED <<hive_posts_cache, hive_posts, entry, ids, ids0,
                   truncate_body, row, rows, posts_by_id, missed, log,
                   ids_with_reblogs, result, raised>>

\* the row handed to _condenser_post_object: dict(row) plus author_rep
RowWithRep(id) ==
    hive_posts_cache[id] @@ [author_rep |-> author_reps[hive_posts_cache[id].author]]

\* load_posts_keyed: build every fetched row's post; the first assertion
\* that fails ends the call
KeyedBuild ==
    /\ pc = "keyed_build"
    /\ LET built == [id \in rows |-> CondenserPostObject(RowWithRep(id), truncate_body)]
       IN  IF \E id \in rows : built[id].raised # ""
           THEN /\ raised' = "AssertionError"
                /\ pc' = "done"
                /\ UNCHANGED posts_by_id
           ELSE /\ posts_by_id' = [id \in rows |-> built[id].post]
                /\ pc' = "keyed_flags"
                /\ UNCHANGED raised
    /\ UNCHANGED <<hive_posts_cache, hive_posts, entry, ids, ids0,
                   truncate_body, row, rows, author_reps, missed, log, queries,
                   ids_with_reblogs, result>>

\* post['stats'] after the pin / mute / valid flags of a canonical record
MergeFlags(post, record) ==
    [post EXCEPT !.stats = [is_pinned |-> record.is_pinned,
                            is_muted  |-> record.is_muted,
                            is_valid  |-> record.is_valid] @@ post.stats]

\* load_posts_keyed: the hive_posts query, the merge of the flags, the return
KeyedFlags ==
    /\ pc = "keyed_flags"
    /\ queries' = Append(queries, Query("hive_posts", Range(ids)))
    /\ posts_by_id' = [id \in DOMAIN posts_by_id |->
                          IF id \in Range(ids) \cap DOMAIN hive_posts
                          THEN MergeFlags(posts_by_id[id], hive_posts[id])
                          ELSE posts_by_id[id]]
    /\ IF entry = "load_posts_keyed"
       THEN /\ result' = posts_by_id'
            /\ pc' = "done"
       ELSE /\ pc' = "recover"
            /\ UNCHANGED result
    /\ UNCHANGED <<hive_posts_cache, hive_posts, entry, ids, ids0,
                   truncate_body, row, rows, author_reps, missed, log,
                   ids_with_reblogs, raised>>

\* missed = set(ids) - posts_by_id.keys()
Missed(list, posts) == Range(list) \ DOMAIN posts

\* load_posts: compute missed, warn when it is not empty
RecoverStart ==
    /\ pc = "recover"
    /\ missed' = Missed(ids, posts_by_id)
    /\ log' = IF missed' # {}
              THEN Append(log, LogRecord("warning",
                                         "get_posts do not exist in cache", missed'))
              ELSE log
    /\ pc' = "recover_loop"
    /\ UNCHANGED <<hive_posts_cache, hive_posts, entry, ids, ids0,
                   truncate_body, row, rows, author_reps, posts_by_id, queries,
                   ids_with_reblogs, result, raised>>

\* mutant of Classify: the severities are swapped
ClassifySwapped(post) ==
    IF post.is_deleted
    THEN LogRecord("error", "missing post", post.id)
    ELSE LogRecord("warning", "requested deleted post", post.id)

\* the log record that classifies a missed id's canonical record
Classify(post) ==
    IF ~post.is_deleted
    THEN LogRecord("error", "missing post", post.id)
    ELSE LogRecord("warning", "requested deleted post", post.id)

\* ids after the loop body's ids.remove(_id)
DropMissed(list, id) == RemoveFirst(list, id)

\* load_posts: one iteration of `for _id in missed` (a set: any order)
RecoverStep(id) ==
    /\ pc = "recover_loop"
    /\ id \in missed
    /\ ids' = DropMissed(ids, id)
    /\ queries' = Append(queries, Query("hive_posts row", id))
    /\ log' = Append(log, Classify(hive_posts[id]))
    /\ missed' = missed \ {id}
    /\ UNCHANGED <<hive_posts_cache, hive_posts, entry, pc, ids0,
                   truncate_body, row, rows, author_reps, posts_by_id,
                   ids_with_reblogs, result, raised>>

\* mutant of Projection: the posts come out in reverse order
ProjectionReversed(list, posts) ==
    [i \in 1..Len(list) |-> posts[list[Len(list) + 1 - i]]]

\* [posts_by_id[_id] for _id in ids]
Projection(list, posts) == [i \in 1..Len(list) |-> posts[list[i]]]

\* load_posts: the final projection; an id without a post is a KeyError
Project ==
    /\ pc = "recover_loop"
    /\ missed = {}
    /\ IF \E i \in 1..Len(ids) : ids[i] \notin DOMAIN posts_by_id
       THEN /\ raised' = "KeyError"
            /\ pc' = "done"
            /\ UNCHANGED result
       ELSE /\ result' = Projection(ids, posts_by_id)
            /\ pc' = IF entry = "load_posts_reblogs" THEN "merge" ELSE "done"
            /\ UNCHANGED raised
    /\ UNCHANGED <<hive_posts_cache, hive_posts, entry, ids, ids0,
                   truncate_body, row, rows, author_reps, posts_by_id, missed,
                   log, queries, ids_with_reblogs>>

(* --------- specification: load_posts and load_posts_keyed ------------- *)

Init ==
    /\ Tables(hive_posts_cache, hive_posts, Ids, [id \in Ids |-> LoaderRows(id)])
    /\ entry = ""
    /\ pc = "idle"
    /\ ids = <<>>
    /\ ids0 = <<>>
    /\ truncate_body = 0
    /\ row = NoValue
    /\ rows = {}
    /\ author_reps = <<>>
    /\ posts_by_id = <<>>
    /\ missed = {}
    /\ log = <<>>
    /\ queries = <<>>
    /\ ids_with_reblogs = <<>>
    /\ result = NoValue
    /\ raised = ""

Next ==
    \/ \E list \in IdLists, tb \in LoaderTruncates : CallLoadPosts(list, tb)
    \/ \E list \in IdLists, tb \in LoaderTruncates : CallLoadPostsKeyed(list, tb)
    \/ KeyedFetch
    \/ KeyedAuthorReps
    \/ KeyedBuild
    \/ KeyedFlags
    \/ RecoverStart
    \/ \E id \in Ids : RecoverStep(id)
    \/ Project

Spec == Init /\ [][Next]_vars

(* ------------------------- load_posts_reblogs ------------------------- *)

ReblogIds == {5, 6}

ReblogRows(id) == {GoodRow(id, Alice), GoodRow(id, Bob)}

\* reblogger name lists; the csv handed in is their ','-join
ReblogNameLists ==
    { <<>>, <<Alice>>, <<Bob>>, <<Alice, Bob>>, <<Bob, Bob>>, <<Carol, Alice>> }

ReblogPairs == { <<id, Join(names, ",")>> : id \in ReblogIds, names \in ReblogNameLists }

PairLists == SeqsUpTo(ReblogPairs, MaxPairs)

\* dict(ids_with_reblogs)[post_id]: the csv of the last pair with that id
ReblogBy(pairs, post_id) ==
    LET k == CHOOSE i \in 1..Len(pairs) :
                 pairs[i][1] = post_id /\ \A j \in (i + 1)..Len(pairs) : pairs[j][1] # post_id
    IN  pairs[k][2]

\* rby = set(csv.split(',')); rby.discard(author)
Rebloggers(csv, author) == Range(Split(csv, ",")) \ {author}

\* the lists list(rby) may yield: the elements of rby in any order
Orderings(S) ==
    {s \in SeqsUpTo(S, Cardinality(S)) : Len(s) = Cardinality(S) /\ Range(s) = S}

\* load_posts_reblogs(db, ids_with_reblogs, truncate_body) up to load_posts
CallLoadPostsReblogs(pairs, tb) ==
    /\ pc = "idle"
    /\ entry' = "load_posts_reblogs"
    /\ ids_with_reblogs' = pairs
    /\ ids' = [i \in 1..Len(pairs) |-> pairs[i][1]]
    /\ ids0' = ids'
    /\ truncate_body' = tb
    /\ EnterLoadPosts(ids')
    /\ UNCHANGED <<hive_posts_cache, hive_posts, row, rows, author_reps,
                   posts_by_id, missed, log, queries, raised>>

\* load_posts_reblogs: merge reblogged_by into the posts load_posts returned
\* (a post listed twice is one object: both entries get the same list)
MergeReblogs ==
    /\ pc = "merge"
    /\ LET rby(post) == Rebloggers(ReblogBy(ids_with_reblogs, post.post_id), post.author)
           listed    == {result[i].post_id : i \in 1..Len(result)}
       IN  \E order \in [listed -> UNION {Orderings(rby(posts_by_id[id])) : id \in listed}] :
               /\ \A id \in listed : order[id] \in Orderings(rby(posts_by_id[id]))
               /\ result' = [i \in 1..Len(result) |->
                                IF rby(result[i]) # {}
                                THEN result[i] @@ [reblogged_by |-> order[result[i].post_id]]
                                ELSE result[i]]
    /\ pc' = "done"
    /\ UNCHANGED <<hive_posts_cache, hive_posts, entry, ids, ids0,
                   truncate_body, row, rows, author_reps, posts_by_id, missed,
                   log, queries, ids_with_reblogs, raised>>

(* --------------- specification: load_posts_reblogs -------------------- *)

InitReblogs ==
    /\ Tables(hive_posts_cache, hive_posts, ReblogIds,
              [id \in ReblogIds |-> ReblogRows(id)])
    /\ entry = ""
    /\ pc = "idle"
    /\ ids = <<>>
    /\ ids0 = <<>>
    /\ truncate_body = 0
    /\ row = NoValue
    /\ rows = {}
    /\ author_reps = <<>>
    /\ posts_by_id = <<>>
    /\ missed = {}
    /\ log = <<>>
    /\ queries = <<>>
    /\ ids_with_reblogs = <<>>
    /\ result = NoValue
    /\ raised = ""

NextReblogs ==
    \/ \E pairs \in PairLists : CallLoadPostsReblogs(pairs, 0)
    \/ KeyedFetch
    \/ KeyedAuthorReps
    \/ KeyedBuild
    \/ KeyedFlags
    \/ RecoverStart
    \/ \E id \in ReblogIds : RecoverStep(id)
    \/ Project
    \/ MergeReblogs

SpecReblogs == InitReblogs /\ [][NextReblogs]_vars

(* ----------------------------- properties ----------------------------- *)

Done == pc = "done"

Returned == pc = "done" /\ raised = ""

HasCacheRow(id) == id \in DOMAIN hive_posts_cache

\* raw_json absent, empty or at most 32 characters long
FaultyRawJson(r) == r.raw_json.null \/ r.raw_json.len <= 32

\* the requested ids with no cache row
MissingIds == {id \in Range(ids0) : ~HasCacheRow(id)}

\* no requested row is a fatal integrity fault
NoFaultyRowRequested ==
    \A id \in Range(ids0) : HasCacheRow(id) => ~FaultyRawJson(hive_posts_cache[id])

\* the caller's sequence without the ids that have no cache row
CachedIds == SelectSeq(ids0, HasCacheRow)

PostIds(posts) == [i \in 1..Len(posts) |-> posts[i].post_id]

\* canonical-record lookups issued for id
Lookups(id) ==
    Cardinality({i \in 1..Len(queries) :
                    queries[i].table = "hive_posts row" /\ queries[i].arg = id})

\* classification log records written for id
Classifications(id) ==
    {i \in 1..Len(log) :
        /\ log[i].msg \in {"missing post", "requested deleted post"}
        /\ log[i].arg = id}

SbdText(a, b, c, d) == <<a, ".", b, c, d, " ", "S", "B", "D">>

\* C1: whenever load_posts returns, the result is the caller's id sequence
\* with the ids that have no cache row removed: same relative order, each
\* post is the post of the id at its position, and the result is no longer
\* than the input.
C1_OrderPreserved ==
    (Returned /\ entry = "load_posts") =>
        /\ PostIds(result) = CachedIds
        /\ \A i \in 1..Len(result) : result[i] = posts_by_id[CachedIds[i]]
        /\ Len(result) <= Len(ids0)

\* load_posts([5,6,7]) with no cache row for the deleted post 6 returned
\* the posts of [5,7]
C1_Witness ==
    /\ Returned /\ entry = "load_posts"
    /\ ids0 = <<5, 6, 7>>
    /\ ~HasCacheRow(6) /\ hive_posts[6].is_deleted
    /\ PostIds(result) = <<5, 7>>

\* C2: a load_posts call on a non-empty id sequence in which some ids have
\* no cache row (and no fetched row is faulty) ends without raising and
\* returns the posts of the remaining ids, however often a missing id occurs.
C2_MissNeverFails ==
    (Done /\ entry = "load_posts" /\ MissingIds # {} /\ NoFaultyRowRequested) =>
        /\ raised = ""
        /\ PostIds(result) = CachedIds

\* C3: load_posts_keyed called with no ids raises the assertion, returns
\* nothing and issues no storage query at any point of the call.
C3_EmptyIdsRejected ==
    (entry = "load_posts_keyed" /\ ids0 = <<>>) =>
        /\ queries = <<>>
        /\ Done => raised = "AssertionError"

C3_Witness ==
    /\ Done /\ entry = "load_posts_keyed" /\ ids0 = <<>>
    /\ raised = "AssertionError" /\ queries = <<>>

\* C4: payout split, in thousandths.  Paid: pending is zero, curator is the
\* share parsed from raw_json, total is the row payout minus that share.
\* Unpaid: pending is the row payout, total and curator are zero.  For
\* payout 10.000 and share 2.000 the texts are those of the specification.
C4_PayoutSplit ==
    (Returned /\ entry = "_condenser_post_object") =>
        LET share   == sbd_amount(row.raw_json.doc.curator_payout_value)
            total   == sbd_amount(result.total_payout_value)
            curator == sbd_amount(result.curator_payout_value)
            pending == sbd_amount(result.pending_payout_value)
            example == row.payout = 10000 /\ share = 2000
        IN  IF row.is_paidout
            THEN /\ pending = 0
                 /\ curator = share
                 /\ total = row.payout - share
                 /\ total + curator = row.payout
                 /\ example =>
                      /\ result.total_payout_value = SbdText("8", "0", "0", "0")
                      /\ result.curator_payout_value = SbdText("2", "0", "0", "0")
            ELSE /\ pending = row.payout
                 /\ total = 0
                 /\ curator = 0
                 /\ example =>
                      /\ result.pending_payout_value = <<"1">> \o SbdText("0", "0", "0", "0")
                      /\ result.total_payout_value = SbdText("0", "0", "0", "0")
                      /\ result.curator_payout_value = SbdText("0", "0", "0", "0")

\* a paid post of payout 10.000 with curator share 2.000 was built
C4_Witness ==
    /\ Returned /\ entry = "_condenser_post_object"
    /\ row.is_paidout /\ row.payout = 10000
    /\ row.raw_json.doc.curator_payout_value = SbdText("2", "0", "0", "0")
    /\ result.total_payout_value = SbdText("8", "0", "0", "0")

\* C5: a cache row whose raw_json is absent, empty or at most 32 characters
\* long makes _condenser_post_object raise, and a load_posts_keyed or
\* load_posts call that fetches such a row raises and returns nothing.
C5_FaultyRawJsonFatal ==
    /\ \A id \in DOMAIN hive_posts_cache :
           FaultyRawJson(hive_posts_cache[id]) =>
               \A tb \in LoaderTruncates :
                   CondenserPostObject(
                       hive_posts_cache[id] @@ [author_rep |-> 25], tb).raised
                   = "AssertionError"
    /\ (Done /\ entry \in {"load_posts", "load_posts_keyed"} /\ ~NoFaultyRowRequested) =>
           /\ raised = "AssertionError"
           /\ result = NoValue

\* a load_posts call asked for a sound row and a row with a 32-character
\* raw_json, and failed
C5_Witness ==
    /\ Done /\ entry = "load_posts" /\ raised = "AssertionError"
    /\ \E id \in Range(ids0) :
           HasCacheRow(id) /\ ~hive_posts_cache[id].raw_json.null
           /\ hive_posts_cache[id].raw_json.len = 32
    /\ \E id \in Range(ids0) :
           HasCacheRow(id) /\ ~FaultyRawJson(hive_posts_cache[id])

\* the names a reblogger csv lists (none for the empty csv)
CsvNames(csv) == IF csv = <<>> THEN {} ELSE Range(Split(csv, ","))

\* C6: every post load_posts_reblogs returns carries reblogged_by exactly
\* when a reblogger other than its author remains; the list then holds each
\* such name once and not the author.
C6_RebloggedBy ==
    (Returned /\ entry = "load_posts_reblogs") =>
        \A i \in 1..Len(result) :
            LET post     == result[i]
                expected == CsvNames(ReblogBy(ids_with_reblogs, post.post_id))
                                \ {post.author}
            IN  IF expected = {}
                THEN "reblogged_by" \notin DOMAIN post
                ELSE /\ "reblogged_by" \in DOMAIN post
                     /\ Range(post.reblogged_by) = expected
                     /\ Len(post.reblogged_by) = Cardinality(expected)

\* C7: body_length is the length of the untruncated body; body is the first
\* truncate_body characters when truncate_body > 0, else the full body.
C7_BodyTruncation ==
    (Returned /\ entry = "_condenser_post_object") =>
        /\ result.body_length = Len(row.body)
        /\ result.body =
               IF truncate_body > 0
               THEN SubSeq(row.body, 1,
                           IF truncate_body < Len(row.body)
                           THEN truncate_body ELSE Len(row.body))
               ELSE row.body

\* C8: with an empty category the post's category is "undefined"; at depth 0
\* parent_author is empty and parent_permlink is the post's category; at
\* depth > 0 both parent fields are those of raw_json.
C8_CategoryAndParent ==
    (Returned /\ entry = "_condenser_post_object") =>
        /\ row.category = "" => result.category = "undefined"
        /\ row.depth = 0 =>
               /\ result.parent_author = ""
               /\ result.parent_permlink = result.category
               /\ row.category = "" => result.parent_permlink = "undefined"
        /\ row.depth > 0 =>
               /\ result.parent_author = row.raw_json.doc.parent_author
               /\ result.parent_permlink = row.raw_json.doc.parent_permlink

C8_Witness ==
    /\ Returned /\ entry = "_condenser_post_object"
    /\ row.category = "" /\ row.depth = 0
    /\ result.category = "undefined" /\ result.parent_permlink = "undefined"

\* what a finished load_posts call did for the ids without a cache row
LookupsAndLogs ==
    /\ \A id \in Ids :
           IF id \in MissingIds
           THEN /\ Lookups(id) = 1
                /\ Cardinality(Classifications(id)) = 1
                /\ \A i \in Classifications(id) :
                       log[i].level =
                           IF hive_posts[id].is_deleted THEN "warning" ELSE "error"
           ELSE /\ Lookups(id) = 0
                /\ Classifications(id) = {}
    /\ MissingIds = {} => log = <<>>

\* C9 as stated: in every finished load_posts call each distinct id without
\* a cache row got exactly one canonical-record lookup and one
\* classification record of the right severity, the other ids none.
C9_EveryCall ==
    (Done /\ entry = "load_posts") => LookupsAndLogs

\* C9 amended: the same, for every load_posts call whose load_posts_keyed
\* step did not abort on a faulty raw_json; and at no point of any call has
\* an id more than one lookup or classification record.
C9_LookupsAndLogs ==
    /\ (Done /\ entry = "load_posts" /\ NoFaultyRowRequested) => LookupsAndLogs
    /\ entry = "load_posts" =>
           \A id \in Ids :
               /\ Lookups(id) <= 1
               /\ Cardinality(Classifications(id)) <= 1

\* a call that missed a deleted and a live post logged a warning and an error
C9_Witness ==
    /\ Done /\ entry = "load_posts"
    /\ \E a \in MissingIds, b \in MissingIds :
           /\ hive_posts[a].is_deleted /\ ~hive_posts[b].is_deleted
           /\ \E i \in Classifications(a) : log[i].level = "warning"
           /\ \E i \in Classifications(b) : log[i].level = "error"
           /\ Lookups(a) = 1 /\ Lookups(b) = 1

\* C10: load_posts leaves the caller's id sequence as it was passed in.
C10_CallerIdsUnchanged ==
    entry = "load_posts" => ids = ids0

====
